---- MODULE Spec2Model ----
(***************************************************************************)
(* Content-line folding of src/src/contentline.rs: fold, next_boundary and *)
(* size.  A logical line is a sequence of bytes (0..255) holding valid     *)
(* UTF-8; the sink is the sequence of bytes accepted by write_str.         *)
(***************************************************************************)
EXTENDS Integers, Sequences, FiniteSets, TLC

VARIABLES
    line,      \* the logical line handed to fold and to size
    limit,     \* the byte limit fold runs with
    content,   \* fold's content: the part of the line not yet cut off
    boundary,  \* fold's boundary
    pc,        \* where fold stands: start, loop, break, segment, done
    sink,      \* the bytes the writer has accepted
    result,    \* fold's return value: none, Ok, Err
    cuts,      \* the offsets in line at which the written segments end
    calls,     \* the number of write_str calls made
    failedAt,  \* the call at which write_str first failed, 0 if none did
    sizeRes    \* the value of size(line.len()), once called

vars == <<line, limit, content, boundary, pc, sink, result, cuts, calls, failedAt, sizeRes>>

(***************************************************************************)
(* Program constants.                                                      *)
(***************************************************************************)
\* the limit one byte short
LIMIT_short == 75 - 1

LIMIT == 75

LINE_BREAK == <<13, 10, 32>>

(***************************************************************************)
(* Bounds of the model.                                                    *)
(***************************************************************************)
\* longest logical line, in bytes
MaxLen == 152
\* most single-byte characters put in front of the repeated pattern
MaxPad == 3
\* largest limit of the parameterised specification
MaxSmallLimit == 4
\* longest logical line of the parameterised specification, in bytes
MaxSmallLen == 10

(***************************************************************************)
(* Logical lines: valid UTF-8 made of a run of single-byte characters      *)
(* followed by a repeated pattern of characters of 1 to 4 bytes.           *)
(***************************************************************************)
Ch1 == <<97>>
Ch2 == <<195, 164>>
Ch3 == <<232, 128, 129>>
Ch4 == <<240, 159, 146, 150>>
ChPad == <<80>>

Chars == {Ch1, Ch2, Ch3, Ch4}

Patterns ==
    {<<c>> : c \in Chars} \cup {<<c, d>> : c \in Chars, d \in Chars}
        \cup {<<<<13>>, <<10>>, <<32>>>>}

RECURSIVE Build(_, _, _, _, _)
Build(acc, k, pat, pad, len) ==
    LET c == IF k < pad THEN ChPad ELSE pat[((k - pad) % Len(pat)) + 1]
    IN  IF Len(acc) + Len(c) > len THEN acc
        ELSE Build(acc \o c, k + 1, pat, pad, len)

\* the longest prefix, of at most len bytes, of pad single bytes then pat repeated
MakeLine(pat, pad, len) == Build(<<>>, 0, pat, pad, len)

Lines == {MakeLine(pat, pad, len) : pat \in Patterns, pad \in 0..MaxPad, len \in 0..MaxLen}

\* the lines whose length is next to one at which fold starts another segment
FairLens == (0..2) \cup ((LIMIT - 4)..(LIMIT + 4)) \cup ((2 * LIMIT - 5)..MaxLen)

FairLines == {MakeLine(pat, 0, len) : pat \in Patterns, len \in FairLens}

SmallLines ==
    {MakeLine(pat, pad, len) : pat \in Patterns, pad \in 0..1, len \in 0..MaxSmallLen}

(***************************************************************************)
(* next_boundary                                                           *)
(***************************************************************************)
Max(S) == CHOOSE x \in S : \A y \in S : y <= x

\* the closure of line 31: a byte that is not a UTF-8 continuation byte
IsCharStart(i) == i < 128 \/ i >= 192

\* Iterator::rposition over a slice: the last 0-based index whose byte
\* satisfies the closure, -1 for None
rposition(s) ==
    LET hits == {i \in 1..Len(s) : IsCharStart(s[i])}
    IN  IF hits = {} THEN -1 ELSE Max(hits) - 1

\* the scan window one byte too wide
next_boundary_wide(input, lim) ==
    IF lim >= Len(input) THEN Len(input)
    ELSE LET last == IF lim + 2 <= Len(input) THEN lim + 2 ELSE Len(input)
             index == rposition(SubSeq(input, 1, last))
         IN  IF index = 0 \/ index = -1 THEN Len(input) ELSE index

\* no backward scan: the cut is made at the limit whatever byte is there
next_boundary_noscan(input, lim) ==
    IF lim >= Len(input) THEN Len(input) ELSE lim

\* the byte at the limit left out of the scan: input[..limit]
next_boundary_excl(input, lim) ==
    IF lim >= Len(input) THEN Len(input)
    ELSE LET index == rposition(SubSeq(input, 1, lim))
         IN  IF index = 0 \/ index = -1 THEN Len(input) ELSE index

\* the fallback cuts after the first character instead of taking the rest
next_boundary_onechar(input, lim) ==
    IF lim >= Len(input) THEN Len(input)
    ELSE LET index == rposition(SubSeq(input, 1, lim + 1))
             later == {i \in 1..(Len(input) - 1) : IsCharStart(input[i + 1])}
         IN  IF index = 0 \/ index = -1
             THEN IF later = {} THEN Len(input)
                  ELSE CHOOSE i \in later : \A j \in later : i <= j
             ELSE index

next_boundary(input, lim) ==
    IF lim >= Len(input) THEN Len(input)
    ELSE LET index == rposition(SubSeq(input, 1, lim + 1))
         IN  IF index = 0 \/ index = -1 THEN Len(input) ELSE index

(***************************************************************************)
(* size: usize arithmetic on 64 bits, as four 16-bit limbs, least          *)
(* significant first.                                                      *)
(***************************************************************************)
Base == 65536

U64(n) == <<n % Base, (n \div Base) % Base, 0, 0>>

\* a - k for a small k >= 0, modulo 2^64
U64Sub(a, k) ==
    LET d1 == a[1] - k
        b1 == IF d1 < 0 THEN 1 ELSE 0
        d2 == a[2] - b1
        b2 == IF d2 < 0 THEN 1 ELSE 0
        d3 == a[3] - b2
        b3 == IF d3 < 0 THEN 1 ELSE 0
        d4 == a[4] - b3
    IN  <<d1 % Base, d2 % Base, d3 % Base, d4 % Base>>

\* a div d for a small d > 0
U64Div(a, d) ==
    LET q4 == a[4] \div d
        r4 == a[4] % d
        n3 == r4 * Base + a[3]
        q3 == n3 \div d
        r3 == n3 % d
        n2 == r3 * Base + a[2]
        q2 == n2 \div d
        r2 == n2 % d
        n1 == r2 * Base + a[1]
        q1 == n1 \div d
    IN  <<q1, q2, q3, q4>>

\* a * m for a small m, modulo 2^64
U64Mul(a, m) ==
    LET p1 == a[1] * m
        p2 == a[2] * m + (p1 \div Base)
        p3 == a[3] * m + (p2 \div Base)
        p4 == a[4] * m + (p3 \div Base)
    IN  <<p1 % Base, p2 % Base, p3 % Base, p4 % Base>>

\* a + b, modulo 2^64
U64Add(a, b) ==
    LET s1 == a[1] + b[1]
        s2 == a[2] + b[2] + (s1 \div Base)
        s3 == a[3] + b[3] + (s2 \div Base)
        s4 == a[4] + b[4] + (s3 \div Base)
    IN  <<s1 % Base, s2 % Base, s3 % Base, s4 % Base>>

NoSize == [tag |-> "none", val |-> U64(0)]

Panic == [tag |-> "panic", val |-> U64(0)]

\* len + ((len - 2) / (lim - 1)) * 3.  With overflow checks (debug builds)
\* the subtraction len - 2 panics for len < 2; without them (release builds)
\* it wraps modulo 2^64.  A division by zero panics in every build.
\* the subtraction of 2 left out
sizeWith_nosub(len, lim, checks) ==
    IF lim - 1 = 0 THEN Panic
    ELSE [tag |-> "ok",
          val |-> U64Add(U64(len), U64Mul(U64Div(U64(len), lim - 1), 3))]

sizeWith(len, lim, checks) ==
    IF lim - 1 = 0 THEN Panic
    ELSE IF checks /\ len < 2 THEN Panic
    ELSE [tag |-> "ok",
          val |-> U64Add(U64(len), U64Mul(U64Div(U64Sub(U64(len), 2), lim - 1), 3))]

size(len, checks) == sizeWith(len, LIMIT, checks)

(***************************************************************************)
(* fold                                                                    *)
(***************************************************************************)
\* &content[..boundary]
Slice(c, b) == SubSeq(c, 1, b)

\* the slice taken one byte too far
Advance_skip(c, b) == SubSeq(c, b + 2, Len(c))

\* content = &content[boundary..]
Advance(c, b) == SubSeq(c, b + 1, Len(c))

\* the loop left one byte early
LoopCond_early(b, c) == b + 1 < Len(c)

\* the loop condition of line 14
LoopCond(b, c) == b < Len(c)

\* the failure of write_str ignored
Try_ignore(ok, next) == next

\* the ? operator on the value of write_str: where fold goes next
Try(ok, next) == IF ok THEN next ELSE "done"

\* the bytes fold writes to a sink that accepts every write
RECURSIVE fold_rest(_, _)
fold_rest(c, lim) ==
    LET nb == next_boundary(c, lim - 1)
    IN  LINE_BREAK \o Slice(c, nb)
            \o (IF LoopCond(nb, c) THEN fold_rest(Advance(c, nb), lim) ELSE <<>>)

fold_output(c, lim) ==
    LET b == next_boundary(c, lim)
    IN  Slice(c, b) \o (IF LoopCond(b, c) THEN fold_rest(Advance(c, b), lim) ELSE <<>>)

\* the offset in the logical line at which the remaining content starts
Offset == Len(line) - Len(content)

InitWith(ls, lims) ==
    /\ line \in ls
    /\ limit \in lims
    /\ content = line
    /\ boundary = 0
    /\ pc = "start"
    /\ sink = <<>>
    /\ result = "none"
    /\ cuts = <<>>
    /\ calls = 0
    /\ failedAt = 0
    /\ sizeRes = NoSize

Init == InitWith(Lines, {LIMIT})

InitParam == InitWith(SmallLines, 1..MaxSmallLimit)

InitFair == InitWith(FairLines, {LIMIT})

\* the lines for which len - 2 does not underflow in size
InitSized == InitWith({l \in Lines : Len(l) >= 2}, {LIMIT})

\* size(content.len()), called to reserve the buffer before fold runs
Size ==
    /\ pc = "start"
    /\ sizeRes = NoSize
    /\ \E checks \in BOOLEAN : sizeRes' = sizeWith(Len(line), limit, checks)
    /\ UNCHANGED <<line, limit, content, boundary, pc, sink, result, cuts, calls, failedAt>>

\* writer.write_str(data)?, after which fold continues at next; a write that
\* fails leaves the sink as it was
Write(data, next) ==
    \E ok \in BOOLEAN :
        /\ calls' = calls + 1
        /\ failedAt' = IF ok \/ failedAt # 0 THEN failedAt ELSE calls + 1
        /\ sink' = IF ok THEN sink \o data ELSE sink
        /\ pc' = Try(ok, next)
        /\ result' = IF pc' = "done" THEN "Err" ELSE result

\* lines 11-12
FoldFirst ==
    /\ pc = "start"
    /\ boundary' = next_boundary(content, limit)
    /\ Write(Slice(content, boundary'), "loop")
    /\ cuts' = IF pc' = "loop" THEN Append(cuts, Offset + boundary') ELSE cuts
    /\ UNCHANGED <<line, limit, content, sizeRes>>

\* lines 14-15
LoopEnter ==
    /\ pc = "loop"
    /\ LoopCond(boundary, content)
    /\ content' = Advance(content, boundary)
    /\ pc' = "break"
    /\ UNCHANGED <<line, limit, boundary, sink, result, cuts, calls, failedAt, sizeRes>>

\* line 16
WriteBreak ==
    /\ pc = "break"
    /\ Write(LINE_BREAK, "segment")
    /\ UNCHANGED <<line, limit, content, boundary, cuts, sizeRes>>

\* lines 17-19
WriteSegment ==
    /\ pc = "segment"
    /\ boundary' = next_boundary(content, limit - 1)
    /\ Write(Slice(content, boundary'), "loop")
    /\ cuts' = IF pc' = "loop" THEN Append(cuts, Offset + boundary') ELSE cuts
    /\ UNCHANGED <<line, limit, content, sizeRes>>

\* lines 14 and 21
FoldReturn ==
    /\ pc = "loop"
    /\ ~LoopCond(boundary, content)
    /\ pc' = "done"
    /\ result' = "Ok"
    /\ UNCHANGED <<line, limit, content, boundary, sink, cuts, calls, failedAt, sizeRes>>

Next == Size \/ FoldFirst \/ LoopEnter \/ WriteBreak \/ WriteSegment \/ FoldReturn

Spec == Init /\ [][Next]_vars

SpecParam == InitParam /\ [][Next]_vars

\* fold and size on the lines of at least 2 bytes
SpecSized == InitSized /\ [][Next]_vars

\* fold runs to its end: no step of it waits for anything but the writer
SpecFair == InitFair /\ [][Next]_vars /\ WF_vars(Next)

(***************************************************************************)
(* Vocabulary of the properties.  The byte classes are those of UTF-8      *)
(* itself, stated apart from the closure next_boundary uses.               *)
(***************************************************************************)
\* a UTF-8 continuation byte, 10xxxxxx
Continuation(b) == b \in 128..191

AllAscii(l) == \A j \in 1..Len(l) : l[j] < 128

NumSegs == Len(cuts)

\* the offset in line at which segment i starts, and its length in bytes
SegStart(i) == IF i = 1 THEN 0 ELSE cuts[i - 1]

SegLen(i) == cuts[i] - SegStart(i)

SegBytes(i) == SubSeq(line, SegStart(i) + 1, cuts[i])

\* the bytes segment i may take: the limit, less the leading space after a break
Window(i) == IF i = 1 THEN limit ELSE limit - 1

\* the bytes of the line not yet written when segment i is cut
Remaining(i) == Len(line) - SegStart(i)

\* the offsets k in 1..Window(i), counted from the start of segment i, at
\* which a character starts
StartsInWindow(i) ==
    {k \in 1..Window(i) : ~Continuation(line[SegStart(i) + k + 1])}

\* the segment has to be cut: more is left than its window takes
MustCut(i) == Remaining(i) > Window(i)

\* the width of the character that starts at offset o of the line
CharWidth(o) ==
    LET ends == {j \in (o + 1)..Len(line) :
                    j = Len(line) \/ ~Continuation(line[j + 1])}
    IN  (CHOOSE j \in ends : \A k \in ends : j <= k) - o

LastCut == IF cuts = <<>> THEN 0 ELSE cuts[Len(cuts)]

IsPrefix(s, t) == Len(s) <= Len(t) /\ SubSeq(t, 1, Len(s)) = s

\* the physical lines of a byte sequence: what lies between CR LF pairs
CrLfAt(s) == {i \in 1..(Len(s) - 1) : s[i] = 13 /\ s[i + 1] = 10}

PhysicalLineLengths(s) ==
    LET ends == CrLfAt(s) \cup {Len(s) + 1}
        from(e) == LET before == {i \in CrLfAt(s) : i < e}
                   IN  IF before = {} THEN 1 ELSE Max(before) + 2
    IN  {e - from(e) : e \in ends}

(***************************************************************************)
(* C1                                                                      *)
(***************************************************************************)
\* C1: with the limit 75, every physical line of the bytes fold has written
\* has at most 75 bytes: the first segment has at most 75 bytes and every
\* later segment at most 74, so at most 75 with the space that leads it.
C1_PhysicalLinesWithinLimit ==
    /\ \A n \in PhysicalLineLengths(sink) : n <= 75
    /\ \A i \in 1..NumSegs : SegLen(i) <= (IF i = 1 THEN 75 ELSE 74)

\* a fold that filled its first line with 75 bytes and its second with 74
C1_Witness ==
    /\ result = "Ok"
    /\ NumSegs >= 3
    /\ SegLen(1) = 75
    /\ SegLen(2) = 74
    /\ 75 \in PhysicalLineLengths(sink)

(***************************************************************************)
(* C2                                                                      *)
(***************************************************************************)
\* C2: no segment ends inside a multi-byte character: every cut is the
\* offset of a byte that is not a continuation byte, or the length of the
\* line; and when the byte at the limit offset is a continuation byte, the
\* cut is the first byte of the character that byte belongs to.
C2_NoCutInsideCharacter ==
    \A i \in 1..NumSegs :
        /\ cuts[i] = Len(line) \/ ~Continuation(line[cuts[i] + 1])
        /\ (MustCut(i) /\ Continuation(line[SegStart(i) + Window(i) + 1]))
              => /\ ~Continuation(line[cuts[i] + 1])
                 /\ \A j \in (cuts[i] + 1)..(SegStart(i) + Window(i)) :
                        Continuation(line[j + 1])

\* a character straddles the limit offset and the cut moved left of it
C2_Witness ==
    /\ result = "Ok"
    /\ \E i \in 1..NumSegs :
          /\ MustCut(i)
          /\ Continuation(line[SegStart(i) + Window(i) + 1])
          /\ SegLen(i) < Window(i)
          /\ SegLen(i) > 0

(***************************************************************************)
(* C3                                                                      *)
(***************************************************************************)
RECURSIVE Joined(_)
\* the first n segments, separated by CR LF SPACE
Joined(n) ==
    IF n = 0 THEN <<>>
    ELSE IF n = 1 THEN SegBytes(1)
    ELSE Joined(n - 1) \o <<13, 10, 32>> \o SegBytes(n)

\* the output without the break sequences fold inserted: byte j of the line
\* stands in the output after one break for every cut before it
StripInserted(out) ==
    [j \in 1..(Len(out) - 3 * (NumSegs - 1)) |->
        out[j + 3 * Cardinality({i \in 1..NumSegs : cuts[i] < j})]]

\* the RFC 5545 unfolding: every CR LF SPACE of s removed gives l
BreakAt(s) ==
    {p \in 1..(Len(s) - 2) : s[p] = 13 /\ s[p + 1] = 10 /\ s[p + 2] = 32}

UnfoldsTo(s, l) ==
    LET kept == {j \in 1..Len(s) : \A p \in BreakAt(s) : j < p \/ j > p + 2}
    IN  /\ Len(l) = Cardinality(kept)
        /\ \A j \in kept : l[j - 3 * Cardinality({p \in BreakAt(s) : p < j})] = s[j]

HasBreak(l) == BreakAt(l) # {}

\* C3: when every write succeeded, the output is the segments of the line
\* in order, separated only by CR LF SPACE; the segments are the line cut
\* into consecutive pieces; and removing the inserted break sequences gives
\* the line back, byte for byte.
C3_Lossless ==
    result = "Ok" =>
        /\ NumSegs >= 1
        /\ \A i \in 1..NumSegs : SegStart(i) <= cuts[i]
        /\ LastCut = Len(line)
        /\ sink = Joined(NumSegs)
        /\ Len(sink) = Len(line) + 3 * (NumSegs - 1)
        /\ StripInserted(sink) = line
        /\ ~HasBreak(line) => UnfoldsTo(sink, line)

\* a line with multi-byte characters folded into three segments
C3_Witness ==
    /\ result = "Ok"
    /\ NumSegs >= 3
    /\ ~AllAscii(line)
    /\ ~HasBreak(line)
    /\ UnfoldsTo(sink, line)

(***************************************************************************)
(* C4, under SpecSized: lines of at least 2 bytes, where size does not     *)
(* underflow (C5).                                                         *)
(***************************************************************************)
\* the value of a usize that fits 32 bits
FromU64(v) == v[1] + v[2] * Base

Fits(v) == v[3] = 0 /\ v[4] = 0 /\ v[2] < 32768

\* C4 as stated: whatever the content of the line, size(len) is the number
\* of bytes fold writes for it.
C4_SizeIsExact ==
    (result = "Ok" /\ sizeRes # NoSize) =>
        sizeRes = [tag |-> "ok", val |-> U64(Len(sink))]

\* C4: for a line of at least 2 bytes, size(len) returns a value that is at
\* most the number of bytes fold writes, and is exactly that number when
\* every character of the line is a single byte.
C4_SizeExactForAscii ==
    (result = "Ok" /\ sizeRes # NoSize /\ Len(line) >= 2) =>
        /\ sizeRes.tag = "ok"
        /\ Fits(sizeRes.val)
        /\ FromU64(sizeRes.val) <= Len(sink)
        /\ AllAscii(line) => FromU64(sizeRes.val) = Len(sink)

\* a single-byte line folded twice, whose size was computed
C4_Witness ==
    /\ result = "Ok"
    /\ AllAscii(line)
    /\ Len(line) >= 150
    /\ NumSegs = 3
    /\ sizeRes = [tag |-> "ok", val |-> U64(Len(sink))]

\* a multi-byte line of at least 2 bytes for which fold writes more bytes
\* than size(len) says
C4_GapReached ==
    /\ result = "Ok"
    /\ Len(line) >= 2
    /\ sizeRes.tag = "ok"
    /\ FromU64(sizeRes.val) < Len(sink)

(***************************************************************************)
(* C5                                                                      *)
(***************************************************************************)
\* C5: for every len >= 0, size(len) returns len + 3 * (max(0, len - 2) div 74),
\* with no underflow in len - 2.
C5_SizeClosedForm ==
    sizeRes # NoSize =>
        sizeRes = [tag |-> "ok",
                   val |-> U64(Len(line)
                               + 3 * ((IF Len(line) >= 2 THEN Len(line) - 2 ELSE 0) \div 74))]

\* the part of C5 the code does meet: the closed form from len = 2 on
C5_ClosedFormFromTwo ==
    (sizeRes # NoSize /\ Len(line) >= 2) =>
        sizeRes = [tag |-> "ok", val |-> U64(Len(line) + 3 * ((Len(line) - 2) \div 74))]

(***************************************************************************)
(* C6                                                                      *)
(***************************************************************************)
\* C6: for a line of at most 75 bytes fold makes one write, of the bytes of
\* the line; it writes no break sequence, never enters the loop, and
\* returns Ok when the sink accepts the write.
C6_ShortLineUnchanged ==
    Len(line) <= 75 =>
        /\ pc \notin {"break", "segment"}
        /\ calls <= 1
        /\ NumSegs <= 1
        /\ sink \in {<<>>, line}
        /\ (pc \in {"loop", "done"} /\ failedAt = 0) => sink = line
        /\ (pc = "done" /\ failedAt = 0) => result = "Ok"
        /\ result = "Ok" => (sink = line /\ calls = 1)

\* a line of exactly 75 bytes written unchanged
C6_Witness ==
    /\ Len(line) = 75
    /\ result = "Ok"
    /\ sink = line

(***************************************************************************)
(* C7                                                                      *)
(***************************************************************************)
\* C7: fold returns Ok when every write succeeded; when a write fails it
\* returns Err at once and makes no further write, and what the sink holds
\* is a prefix of the complete folded output.
C7_FailFast ==
    /\ (pc = "done" /\ failedAt = 0) => result = "Ok"
    /\ result = "Err" => failedAt # 0
    /\ failedAt # 0 =>
          /\ pc = "done"
          /\ result = "Err"
          /\ calls = failedAt
          /\ IsPrefix(sink, fold_output(line, limit))

\* the write of the second segment failed after the sink took a segment
\* and a break
C7_Witness ==
    /\ result = "Err"
    /\ failedAt = 3
    /\ Len(sink) > 75
    /\ Len(sink) < Len(fold_output(line, limit))

(***************************************************************************)
(* C8                                                                      *)
(***************************************************************************)
\* C8: a segment that has to be cut ends at the largest offset within its
\* window at which a character starts, the window itself included; a
\* segment that is not the last cannot take the next character; and a line
\* of single bytes longer than 75 is cut into 75 bytes, then 74 bytes at a
\* time, the last segment holding the remainder.
C8_RightmostCut ==
    /\ \A i \in 1..NumSegs :
          /\ (MustCut(i) /\ StartsInWindow(i) # {})
                => SegLen(i) = Max(StartsInWindow(i))
          /\ cuts[i] < Len(line)
                => SegLen(i) + CharWidth(cuts[i]) > Window(i)
    /\ (AllAscii(line) /\ Len(line) > 75) =>
          /\ \A i \in 1..NumSegs :
                SegLen(i) = IF i = 1 THEN 75
                            ELSE IF Len(line) - SegStart(i) > 74 THEN 74
                            ELSE Len(line) - SegStart(i)
          /\ result = "Ok" => NumSegs = 2 + ((Len(line) - 76) \div 74)

\* a line of single bytes cut into 75, 74 and the remainder
C8_Witness ==
    /\ result = "Ok"
    /\ AllAscii(line)
    /\ NumSegs = 3
    /\ SegLen(1) = 75
    /\ SegLen(2) = 74
    /\ SegLen(3) < 74

(***************************************************************************)
(* C9, under SpecParam: the limit is a parameter.                          *)
(***************************************************************************)
\* segment i has to be cut and its first character is wider than its window
Oversized(i) == MustCut(i) /\ StartsInWindow(i) = {}

\* C9 as stated: the oversized segment is exactly the bytes of that one
\* character, and what follows the character is folded into later segments.
C9_OversizedIsOneCharacter ==
    \A i \in 1..NumSegs :
        Oversized(i) =>
            /\ SegLen(i) = CharWidth(SegStart(i))
            /\ (result = "Ok" /\ Remaining(i) > CharWidth(SegStart(i))) => i < NumSegs

\* C9: the character is not split: the oversized segment starts with it and
\* is the whole of the remaining content, so it is the last segment and no
\* break is written after it; it is exactly the character's bytes only when
\* nothing follows the character.
C9_OversizedTakesTheRest ==
    \A i \in 1..NumSegs :
        Oversized(i) =>
            /\ cuts[i] = Len(line)
            /\ i = NumSegs
            /\ SegLen(i) >= CharWidth(SegStart(i))
            /\ SegLen(i) > Window(i)
            /\ (SegLen(i) = CharWidth(SegStart(i)))
                  <=> (Remaining(i) = CharWidth(SegStart(i)))
            /\ pc \in {"loop", "done"}
            /\ result = "Ok" => sink = Joined(i)

\* an oversized character with content after it, all in one segment
C9_Witness ==
    /\ result = "Ok"
    /\ \E i \in 1..NumSegs :
          /\ Oversized(i)
          /\ i > 1
          /\ SegLen(i) > CharWidth(SegStart(i))

(***************************************************************************)
(* C10, under SpecFair                                                     *)
(***************************************************************************)
\* the break sequences the sink has accepted
BreaksWritten == (Len(sink) - LastCut) \div 3

C10_LoopInv ==
    /\ pc \in {"break", "segment"} => Len(content) > 0
    /\ (pc = "loop" /\ NumSegs > 1) => boundary >= 1
    /\ pc = "loop" => boundary <= Len(content)
    /\ result = "Ok" => (boundary = Len(content) /\ LastCut = Len(line))
    /\ BreaksWritten <= Len(line)
    /\ calls <= 2 * Len(line) + 1

C10_LoopStep ==
    /\ (pc = "segment" /\ pc' = "loop") => boundary' >= 1
    /\ content' # content => Len(content') < Len(content)
    /\ (pc = "loop" /\ pc' = "done") <=> (pc = "loop" /\ boundary = Len(content))

\* C10: fold terminates: an iteration is entered only with content left,
\* the boundary computed in it is at least 1, the content shrinks at every
\* iteration, the loop ends exactly when the boundary is the length of the
\* content, and at most as many breaks are written as the line has bytes.
C10_Terminates ==
    /\ []C10_LoopInv
    /\ [][C10_LoopStep]_vars
    /\ <>(pc = "done")

\* a fold that went through the loop twice and returned
C10_Witness ==
    /\ pc = "done"
    /\ result = "Ok"
    /\ NumSegs = 3
    /\ BreaksWritten = 2

====
